---- MODULE Spec2Model ----
(***************************************************************************)
(* Model of the AI Invoice Analyzer request pipeline (src/main.py):        *)
(* POST /analyze-invoice = content-type check, upload read, PDF text       *)
(* extraction or image encoding, one chat-completion call, pydantic        *)
(* validation of the reply against InvoiceData, normalize_invoice.         *)
(*                                                                         *)
(* Representation                                                          *)
(*   - Python str values that the code only compares or passes on are TLA+ *)
(*     strings; PDF text, which the code strips, is a sequence of Unicode  *)
(*     code points.                                                        *)
(*   - A Python float is a sign and a magnitude, the magnitude the integer *)
(*     number of 1/Unit-ths (Unit a power of two, so every modelled value  *)
(*     is an exact binary float and the rounding of the format is exact;   *)
(*     the sign keeps -0.0 apart from 0.0), or an infinity, or nan.        *)
(*   - A JSON number is the literal as written: a float or an integer      *)
(*     literal of a finite value, a float literal beyond the binary64      *)
(*     range (1e400), or one of NaN, Infinity, -Infinity, which the parser *)
(*     of pydantic accepts.                                                *)
(*   - A JSON value is a tagged record: absent key, null, str, num, bool.  *)
(*   - A validated Python value is a tagged record: none, str, float.      *)
(***************************************************************************)
EXTENDS Integers, Sequences, FiniteSets, TLC

VARIABLES
    pc,             \* position of the handler in the current request
    content_type,   \* file.content_type of the request
    upload,         \* the uploaded file (what file.read() will give)
    file_bytes,     \* local file_bytes once read
    extracted_text, \* local extracted_text on the PDF branch
    extract_calls,  \* calls of extract_text_from_pdf in this request
    model_calls,    \* calls of client.chat.completions.create in this request
    call_shape,     \* shape of the messages sent to the model
    response,       \* what the model client returned
    validated,      \* the InvoiceData as validated, before normalization
    invoice,        \* the InvoiceData object held by the handler
    outcome         \* how the request ended

vars == <<pc, content_type, upload, file_bytes, extracted_text, extract_calls,
          model_calls, call_shape, response, validated, invoice, outcome>>

----------------------------------------------------------------------------
(* Bounds of the model *)

MaxPages == 2
FracBits == 4

Unit == 2 ^ FracBits

----------------------------------------------------------------------------
(* Text: sequences of code points, and str.strip() *)

\* The code points str.strip() removes: those for which str.isspace() holds.
Whitespace ==
    (9..13) \cup (28..32) \cup { 133, 160, 5760 } \cup (8192..8202)
    \cup { 8232, 8233, 8239, 8287, 12288 }

RECURSIVE LStrip(_)
LStrip(s) ==
    IF s = <<>> THEN <<>>
    ELSE IF Head(s) \in Whitespace THEN LStrip(Tail(s)) ELSE s

RECURSIVE RStrip(_)
RStrip(s) ==
    IF s = <<>> THEN <<>>
    ELSE IF s[Len(s)] \in Whitespace THEN RStrip(SubSeq(s, 1, Len(s) - 1)) ELSE s

Strip(s) == RStrip(LStrip(s))

----------------------------------------------------------------------------
(* Uploaded files *)

\* page texts: " \xa0" and "\x0bA\n"
PageTexts == { <<32, 160>>, <<11, 65, 10>> }

RECURSIVE PageSeqs(_)
PageSeqs(n) ==
    IF n = 0 THEN { <<>> }
    ELSE PageSeqs(n - 1) \cup
         { Append(p, t) : p \in { q \in PageSeqs(n - 1) : Len(q) = n - 1 }, t \in PageTexts }

\* An upload whose read fails, bytes that are no PDF (an image, say), and PDFs
\* with up to MaxPages pages of text.
Files ==
    { [kind |-> "unreadable", pages |-> <<>>], [kind |-> "other", pages |-> <<>>] }
    \cup { [kind |-> "pdf", pages |-> p] : p \in PageSeqs(MaxPages) }

NoBytes == [kind |-> "none", pages |-> <<>>]

ContentTypes ==
    { "image/png", "image/jpeg", "application/pdf",
      "IMAGE/PNG", "image/png; charset=binary", "image/jpg", "application/PDF",
      "text/plain", "" }

\* Faulty variant: the type check also lets an upper-case and a text type through.
AllowedTypesLoose == { "image/png", "image/jpeg", "application/pdf", "IMAGE/PNG", "text/plain" }

AllowedTypes == { "image/png", "image/jpeg", "application/pdf" }

----------------------------------------------------------------------------
(* extract_text_from_pdf *)

RECURSIVE ConcatPages(_)
ConcatPages(pages) ==
    IF pages = <<>> THEN <<>> ELSE Head(pages) \o ConcatPages(Tail(pages))

PdfParses(bytes) == bytes.kind = "pdf"

extract_text_from_pdf(bytes) == Strip(ConcatPages(bytes.pages))

----------------------------------------------------------------------------
(* Values *)

\* JSON values of the model's reply; Absent stands for a key that is not there.
Absent == [t |-> "absent"]
Null == [t |-> "null"]
JStr(x) == [t |-> "str", s |-> x]
\* the float literal of k/Unit, the float literal -0.0, the integer literal n
JNum(k) ==
    [t |-> "num", cls |-> "finite", int |-> FALSE, neg |-> k < 0,
     mag |-> IF k < 0 THEN 0 - k ELSE k]
JNegZero == [t |-> "num", cls |-> "finite", int |-> FALSE, neg |-> TRUE, mag |-> 0]
JInt(n) ==
    [t |-> "num", cls |-> "finite", int |-> TRUE, neg |-> n < 0,
     mag |-> (IF n < 0 THEN 0 - n ELSE n) * Unit]
\* a float literal beyond the binary64 range (1e400), and NaN, Infinity, -Infinity
JHuge(neg) == [t |-> "num", cls |-> "huge", int |-> FALSE, neg |-> neg, mag |-> 0]
JInfinity(neg) == [t |-> "num", cls |-> "inf", int |-> FALSE, neg |-> neg, mag |-> 0]
JNaN == [t |-> "num", cls |-> "nan", int |-> FALSE, neg |-> FALSE, mag |-> 0]
JBool(x) == [t |-> "bool", b |-> x]

\* Python values of the validated fields.
PyNone == [t |-> "none"]
PyStr(x) == [t |-> "str", s |-> x]
PyFloat(neg, mag) == [t |-> "float", cls |-> "finite", neg |-> neg, mag |-> mag]
PyInf(neg) == [t |-> "float", cls |-> "inf", neg |-> neg, mag |-> 0]
PyNaN == [t |-> "float", cls |-> "nan", neg |-> FALSE, mag |-> 0]

\* n/d rounded to the nearest integer, ties to even (n >= 0, d > 0): the
\* rounding of binary64 and of Python's float formatting.
RoundHalfEven(n, d) ==
    LET q == n \div d
        r == n % d
    IN  IF 2 * r < d THEN q
        ELSE IF 2 * r > d THEN q + 1
        ELSE IF q % 2 = 0 THEN q ELSE q + 1

\* binary64: significand bits, and the exponent from which a value is infinite
Precision == 53
MaxExp == 1024

\* number of bits, and of decimal digits, of a natural number
RECURSIVE BitLen(_)
BitLen(n) == IF n = 0 THEN 0 ELSE 1 + BitLen(n \div 2)

RECURSIVE DigitLen(_)
DigitLen(n) == IF n < 10 THEN 1 ELSE 1 + DigitLen(n \div 10)

\* a magnitude rounded to Precision significant bits, ties to even
RoundToPrecision(mag) ==
    LET b == BitLen(mag)
    IN  IF b <= Precision THEN mag
        ELSE RoundHalfEven(mag, 2 ^ (b - Precision)) * (2 ^ (b - Precision))

\* The float a JSON number is read as: the nearest binary64, an infinity when
\* the literal is beyond the range, nan for NaN.
ParseFloat(j) ==
    CASE j.cls = "nan" -> PyNaN
      [] j.cls \in { "inf", "huge" } -> PyInf(j.neg)
      [] OTHER ->
            LET r == RoundToPrecision(j.mag)
            IN  IF BitLen(r) - FracBits > MaxExp THEN PyInf(j.neg) ELSE PyFloat(j.neg, r)

Ok(v) == [ok |-> TRUE, val |-> v, err |-> ""]
Err(e) == [ok |-> FALSE, val |-> PyNone, err |-> e]

----------------------------------------------------------------------------
(* class InvoiceData: per-field validation of pydantic (lax mode, JSON input) *)

\* Optional[str] with a default: a missing key takes the default, null is None,
\* a JSON string is kept, and no other JSON type is coerced to str.
ValidateOptStr(j, default) ==
    CASE j.t = "absent" -> Ok(default)
      [] j.t = "null" -> Ok(PyNone)
      [] j.t = "str" -> Ok(PyStr(j.s))
      [] OTHER -> Err("string_type")

\* currency: Optional[str] = "USD"
ValidateCurrency(j) == ValidateOptStr(j, PyStr("USD"))

\* total_amount: Union[str, float], required.  Smart-mode union: a JSON string is
\* a str (even one that spells a number), a JSON number is the binary64 float
\* it is read as (inf and nan included), and in lax mode a JSON boolean is
\* coerced to the float 1.0 or 0.0.
ValidateAmount(j) ==
    CASE j.t = "absent" -> Err("missing")
      [] j.t = "null" -> Err("string_type,float_type")
      [] j.t = "str" -> Ok(PyStr(j.s))
      [] j.t = "num" -> Ok(ParseFloat(j))
      [] j.t = "bool" -> Ok(PyFloat(FALSE, IF j.b THEN Unit ELSE 0))

\* The spellings of a word given as the set of spellings of each letter.
RECURSIVE CaseVariants(_)
CaseVariants(w) ==
    IF w = <<>> THEN { "" }
    ELSE { c \o r : c \in Head(w), r \in CaseVariants(Tail(w)) }

\* The strings that equal the word, ASCII case ignored.
TrueStrings ==
    { "1" }
    \cup CaseVariants(<< {"t", "T"} >>)
    \cup CaseVariants(<< {"y", "Y"} >>)
    \cup CaseVariants(<< {"o", "O"}, {"n", "N"} >>)
    \cup CaseVariants(<< {"y", "Y"}, {"e", "E"}, {"s", "S"} >>)
    \cup CaseVariants(<< {"t", "T"}, {"r", "R"}, {"u", "U"}, {"e", "E"} >>)
FalseStrings ==
    { "0" }
    \cup CaseVariants(<< {"f", "F"} >>)
    \cup CaseVariants(<< {"n", "N"} >>)
    \cup CaseVariants(<< {"n", "N"}, {"o", "O"} >>)
    \cup CaseVariants(<< {"o", "O"}, {"f", "F"}, {"f", "F"} >>)
    \cup CaseVariants(<< {"f", "F"}, {"a", "A"}, {"l", "L"}, {"s", "S"}, {"e", "E"} >>)

\* an integer literal of this many digits or more is no 64-bit integer to the parser
BigIntDigits == 19
\* a float of this many integer bits or more (2^63 and up) converts to no integer
Int64Bits == 64

\* The number has no integer value that lax bool parsing looks at: nan, an
\* infinity, a fraction, a float from 2^63 up, an integer literal from 10^18 up.
NoIntegerValue(j) ==
    \/ j.cls # "finite"
    \/ /\ j.int
       /\ DigitLen(j.mag \div Unit) >= BigIntDigits
    \/ /\ ~j.int
       /\ LET x == ParseFloat(j)
          IN  \/ x.cls # "finite"
              \/ x.mag % Unit # 0
              \/ BitLen(x.mag \div Unit) >= Int64Bits

\* valid: bool = True.  Lax mode coerces the strings (case ignored) and the
\* numbers 1 and 0 that spell a boolean; another string or whole number is a
\* bool_parsing error, a number with no integer value and null a bool_type error.
ValidateValid(j) ==
    CASE j.t = "absent" -> [ok |-> TRUE, val |-> TRUE, err |-> ""]
      [] j.t = "bool" -> [ok |-> TRUE, val |-> j.b, err |-> ""]
      [] j.t = "str" /\ j.s \in TrueStrings -> [ok |-> TRUE, val |-> TRUE, err |-> ""]
      [] j.t = "str" /\ j.s \in FalseStrings -> [ok |-> TRUE, val |-> FALSE, err |-> ""]
      [] j.t = "num" /\ NoIntegerValue(j) ->
            [ok |-> FALSE, val |-> FALSE, err |-> "bool_type"]
      [] j.t = "num" /\ ~NoIntegerValue(j) /\ j.mag = Unit /\ ~j.neg ->
            [ok |-> TRUE, val |-> TRUE, err |-> ""]
      [] j.t = "num" /\ ~NoIntegerValue(j) /\ j.mag = 0 ->
            [ok |-> TRUE, val |-> FALSE, err |-> ""]
      [] j.t = "null" -> [ok |-> FALSE, val |-> FALSE, err |-> "bool_type"]
      [] OTHER -> [ok |-> FALSE, val |-> FALSE, err |-> "bool_parsing"]

FieldNames ==
    << "vendor", "invoice_number", "invoice_date", "due_date",
       "total_amount", "currency", "valid" >>

\* The validation result of each field of a JSON object, keyed by field name.
FieldResults(doc) ==
    [ vendor |-> ValidateOptStr(doc.vendor, PyNone),
      invoice_number |-> ValidateOptStr(doc.invoice_number, PyNone),
      invoice_date |-> ValidateOptStr(doc.invoice_date, PyNone),
      due_date |-> ValidateOptStr(doc.due_date, PyNone),
      total_amount |-> ValidateAmount(doc.total_amount),
      currency |-> ValidateCurrency(doc.currency),
      valid |-> ValidateValid(doc.valid) ]

\* pydantic reports every failing field, in field order.
RECURSIVE ErrorLines(_, _)
ErrorLines(res, i) ==
    IF i > Len(FieldNames) THEN ""
    ELSE (IF res[FieldNames[i]].ok THEN ""
          ELSE " " \o FieldNames[i] \o ":" \o res[FieldNames[i]].err)
         \o ErrorLines(res, i + 1)

NoInvoice == [t |-> "none"]

\* InvoiceData.model_validate_json(result): the InvoiceData object, or the
\* message of the ValidationError it raises.
model_validate_json(body) ==
    CASE body.t = "invalid" ->
            [ok |-> FALSE, data |-> NoInvoice, msg |-> "InvoiceData json_invalid"]
      [] body.t = "obj" ->
            LET res == FieldResults(body.doc) IN
            IF \A i \in 1..Len(FieldNames) : res[FieldNames[i]].ok
            THEN [ok |-> TRUE,
                  data |-> [ vendor |-> res.vendor.val,
                             invoice_number |-> res.invoice_number.val,
                             invoice_date |-> res.invoice_date.val,
                             due_date |-> res.due_date.val,
                             total_amount |-> res.total_amount.val,
                             currency |-> res.currency.val,
                             valid |-> res.valid.val ],
                  msg |-> ""]
            ELSE [ok |-> FALSE, data |-> NoInvoice,
                  msg |-> "InvoiceData" \o ErrorLines(res, 1)]
      [] OTHER ->
            [ok |-> FALSE, data |-> NoInvoice, msg |-> "InvoiceData model_type"]

----------------------------------------------------------------------------
(* normalize_invoice *)

Decimals == 2

Digits == << "0", "1", "2", "3", "4", "5", "6", "7", "8", "9" >>

RECURSIVE IntStr(_)
IntStr(n) == IF n < 10 THEN Digits[n + 1] ELSE IntStr(n \div 10) \o Digits[(n % 10) + 1]

\* n printed in exactly w digits, zero padded (n < 10^w)
RECURSIVE PadStr(_, _)
PadStr(n, w) == IF w = 0 THEN "" ELSE PadStr(n \div 10, w - 1) \o Digits[(n % 10) + 1]

\* Faulty variant: the amount is cut to two decimals, not rounded.
FormatTruncated(x) ==
    LET c == (x.mag * (10 ^ Decimals)) \div Unit
    IN  CASE x.cls = "nan" -> "nan"
          [] x.cls = "inf" -> (IF x.neg THEN "-inf" ELSE "inf")
          [] OTHER ->
                (IF x.neg THEN "-" ELSE "")
                \o IntStr(c \div (10 ^ Decimals)) \o "."
                \o PadStr(c % (10 ^ Decimals), Decimals)

\* f"{x:.2f}" of the float x: "nan", "inf" or "-inf", or else its sign, -0.0
\* included, then the rounded magnitude
FormatFloat(x) ==
    LET c == RoundHalfEven(x.mag * (10 ^ Decimals), Unit)
    IN  CASE x.cls = "nan" -> "nan"
          [] x.cls = "inf" -> (IF x.neg THEN "-inf" ELSE "inf")
          [] OTHER ->
                (IF x.neg THEN "-" ELSE "")
                \o IntStr(c \div (10 ^ Decimals)) \o "."
                \o PadStr(c % (10 ^ Decimals), Decimals)

\* Faulty variant: a string amount gets ".00" appended.
normalize_append_zeros(data) ==
    IF data.total_amount.t = "float"
    THEN [data EXCEPT !.total_amount = PyStr(FormatFloat(data.total_amount))]
    ELSE [data EXCEPT !.total_amount = PyStr(data.total_amount.s \o ".00")]

\* Faulty variant: the normalizer sets valid to false when the vendor is missing.
normalize_fix_valid(data) ==
    LET d == IF data.vendor = PyNone THEN [data EXCEPT !.valid = FALSE] ELSE data
    IN  IF d.total_amount.t = "float"
        THEN [d EXCEPT !.total_amount = PyStr(FormatFloat(d.total_amount))]
        ELSE d

normalize_invoice(data) ==
    IF data.total_amount.t = "float"
    THEN [data EXCEPT !.total_amount = PyStr(FormatFloat(data.total_amount))]
    ELSE data

----------------------------------------------------------------------------
(* Replies of the model client *)

\* -0.0625, 0.0625, 0.125, 0.1875, 0.375 and 1234.5
Amounts ==
    { 0 - (Unit \div 16), Unit \div 16, Unit \div 8, 3 * (Unit \div 16),
      3 * (Unit \div 8), 2469 * (Unit \div 2) }

VendorValues == { Absent, JStr("Acme Ltd"), JNum(Unit) }
InvoiceNumberValues == { Absent, JStr("1001") }
InvoiceDateValues == { Null, JStr("2024-01-31") }
DueDateValues == { Absent, JBool(TRUE) }
AmountValues ==
    { Absent, Null, JStr("1234.50"), JBool(TRUE), JNegZero, JInt(250),
      JHuge(FALSE), JInfinity(TRUE), JNaN }
    \cup { JNum(k) : k \in Amounts }
CurrencyValues == { Absent, Null, JStr("BDT") }
ValidValues ==
    { Absent, Null, JBool(TRUE), JBool(FALSE), JStr("No"), JStr("maybe"),
      JInt(0), JInt(1), JHuge(FALSE) }

Docs ==
    [ vendor : VendorValues, invoice_number : InvoiceNumberValues,
      invoice_date : InvoiceDateValues, due_date : DueDateValues,
      total_amount : AmountValues, currency : CurrencyValues, valid : ValidValues ]

\* The text of the first choice, as JSON: text that is no JSON, a JSON value that
\* is no object, or an object.
Bodies ==
    { [t |-> "invalid"], [t |-> "array"] } \cup { [t |-> "obj", doc |-> d] : d \in Docs }

\* create() raises, returns no choice, or returns a first choice with content.
Replies ==
    { [kind |-> "raise"], [kind |-> "nochoices"] }
    \cup { [kind |-> "content", body |-> b] : b \in Bodies }

NoReply == [kind |-> "none"]

----------------------------------------------------------------------------
(* Outcomes of a request, and the try/except of analyze_invoice *)

Pending == [kind |-> "pending", status |-> 0, detail |-> "", body |-> NoInvoice]

\* an HTTPException leaves the handler: FastAPI answers status, detail
HttpError(status, detail) ==
    [kind |-> "http_error", status |-> status, detail |-> detail, body |-> NoInvoice]

\* any other exception leaves the handler as it is
Escapes(msg) ==
    [kind |-> "exception", status |-> 0, detail |-> msg, body |-> NoInvoice]

Returns(data) ==
    [kind |-> "ok", status |-> 200, detail |-> "", body |-> data]

HTTPException(status, detail) == [http |-> TRUE, status |-> status, detail |-> detail]
Exception(msg) == [http |-> FALSE, status |-> 0, detail |-> msg]

\* Faulty variant: the handler has no "except HTTPException: raise" clause.
CatchAllOnly(e) == HttpError(500, e.detail)

\* except HTTPException: raise / except Exception as e: raise HTTPException(500, str(e))
Except(e) ==
    IF e.http THEN HttpError(e.status, e.detail) ELSE HttpError(500, e.detail)

UnsupportedMsg == "Unsupported file type"
NoTextMsg == "No readable text found in PDF (possibly scanned)"

----------------------------------------------------------------------------
(* State machine of one request after another *)

Init ==
    /\ pc = "Idle"
    /\ content_type = ""
    /\ upload = NoBytes
    /\ file_bytes = NoBytes
    /\ extracted_text = <<>>
    /\ extract_calls = 0
    /\ model_calls = 0
    /\ call_shape = "none"
    /\ response = NoReply
    /\ validated = NoInvoice
    /\ invoice = NoInvoice
    /\ outcome = Pending

\* A request arrives: analyze_invoice(file) is entered with fresh locals.
Receive ==
    /\ pc = "Idle"
    /\ \E ct \in ContentTypes, f \in Files :
           /\ pc' = "Received"
           /\ content_type' = ct
           /\ upload' = f
           /\ file_bytes' = NoBytes
           /\ extracted_text' = <<>>
           /\ extract_calls' = 0
           /\ model_calls' = 0
           /\ call_shape' = "none"
           /\ response' = NoReply
           /\ validated' = NoInvoice
           /\ invoice' = NoInvoice
           /\ outcome' = Pending

Fail(o) ==
    /\ pc' = "Errored"
    /\ outcome' = o

\* if file.content_type not in [...]: raise HTTPException(400, ...)
TypeCheck ==
    /\ pc = "Received"
    /\ IF content_type \in AllowedTypes
       THEN pc' = "TypeChecked" /\ UNCHANGED outcome
       ELSE Fail(HttpError(400, UnsupportedMsg))
    /\ UNCHANGED <<content_type, upload, file_bytes, extracted_text, extract_calls,
                   model_calls, call_shape, response, validated, invoice>>

\* file_bytes = await file.read(), before the try block
ReadFile ==
    /\ pc = "TypeChecked"
    /\ IF upload.kind = "unreadable"
       THEN Fail(Escapes("read failed")) /\ UNCHANGED file_bytes
       ELSE pc' = "FileRead" /\ file_bytes' = upload /\ UNCHANGED outcome
    /\ UNCHANGED <<content_type, upload, extracted_text, extract_calls,
                   model_calls, call_shape, response, validated, invoice>>

\* Faulty variant: the empty-text guard of the PDF branch is missing.
ExtractPdfNoGuard ==
    /\ pc = "FileRead"
    /\ content_type = "application/pdf"
    /\ extract_calls' = extract_calls + 1
    /\ IF ~PdfParses(file_bytes)
       THEN Fail(Except(Exception("cannot open document"))) /\ UNCHANGED extracted_text
       ELSE /\ extracted_text' = extract_text_from_pdf(file_bytes)
            /\ pc' = "ContentExtracted"
            /\ UNCHANGED outcome
    /\ UNCHANGED <<content_type, upload, file_bytes, model_calls, call_shape,
                   response, validated, invoice>>

\* PDF branch: extract_text_from_pdf(file_bytes), then the empty-text guard
ExtractPdf ==
    /\ pc = "FileRead"
    /\ content_type = "application/pdf"
    /\ extract_calls' = extract_calls + 1
    /\ IF ~PdfParses(file_bytes)
       THEN Fail(Except(Exception("cannot open document"))) /\ UNCHANGED extracted_text
       ELSE /\ extracted_text' = extract_text_from_pdf(file_bytes)
            /\ IF extracted_text' = <<>>
               THEN Fail(Except(HTTPException(400, NoTextMsg)))
               ELSE pc' = "ContentExtracted" /\ UNCHANGED outcome
    /\ UNCHANGED <<content_type, upload, file_bytes, model_calls, call_shape,
                   response, validated, invoice>>

\* image branch: base64.b64encode(file_bytes) never fails and no text is extracted
EncodeImage ==
    /\ pc = "FileRead"
    /\ content_type # "application/pdf"
    /\ pc' = "ContentExtracted"
    /\ UNCHANGED <<content_type, upload, file_bytes, extracted_text, extract_calls,
                   model_calls, call_shape, response, validated, invoice, outcome>>

\* Faulty variant: a raising model call is tried a second time.
QueryModelRetry ==
    /\ pc = "ContentExtracted"
    /\ \E reply \in Replies :
           /\ model_calls' = model_calls + 1
           /\ call_shape' = IF content_type = "application/pdf" THEN "text" ELSE "image"
           /\ IF reply.kind = "raise"
              THEN IF model_calls = 0
                   THEN UNCHANGED <<pc, outcome, response>>
                   ELSE Fail(Except(Exception("upstream call failed"))) /\ UNCHANGED response
              ELSE pc' = "ModelQueried" /\ response' = reply /\ UNCHANGED outcome
           /\ UNCHANGED <<content_type, upload, file_bytes, extracted_text, extract_calls,
                          validated, invoice>>

\* response = client.chat.completions.create(...): one call, it returns or raises
QueryModel ==
    /\ pc = "ContentExtracted"
    /\ \E reply \in Replies :
           /\ model_calls' = model_calls + 1
           /\ call_shape' = IF content_type = "application/pdf" THEN "text" ELSE "image"
           /\ IF reply.kind = "raise"
              THEN Fail(Except(Exception("upstream call failed"))) /\ UNCHANGED response
              ELSE pc' = "ModelQueried" /\ response' = reply /\ UNCHANGED outcome
           /\ UNCHANGED <<content_type, upload, file_bytes, extracted_text, extract_calls,
                          validated, invoice>>

\* result = response.choices[0].message.content
\* invoice = InvoiceData.model_validate_json(result)
ParseResponse ==
    /\ pc = "ModelQueried"
    /\ IF response.kind = "nochoices"
       THEN Fail(Except(Exception("list index out of range")))
            /\ UNCHANGED <<validated, invoice>>
       ELSE LET v == model_validate_json(response.body) IN
            IF v.ok
            THEN /\ pc' = "ResponseParsed"
                 /\ validated' = v.data
                 /\ invoice' = v.data
                 /\ UNCHANGED outcome
            ELSE Fail(Except(Exception(v.msg))) /\ UNCHANGED <<validated, invoice>>
    /\ UNCHANGED <<content_type, upload, file_bytes, extracted_text, extract_calls,
                   model_calls, call_shape, response>>

\* return normalize_invoice(invoice)
Normalize ==
    /\ pc = "ResponseParsed"
    /\ invoice' = normalize_invoice(invoice)
    /\ outcome' = Returns(invoice')
    /\ pc' = "Returned"
    /\ UNCHANGED <<content_type, upload, file_bytes, extracted_text, extract_calls,
                   model_calls, call_shape, response, validated>>

\* The response has been sent and the request's frame is discarded; nothing of
\* a request outlives it.
Finish ==
    /\ pc \in { "Returned", "Errored" }
    /\ pc' = "Idle"
    /\ content_type' = ""
    /\ upload' = NoBytes
    /\ file_bytes' = NoBytes
    /\ extracted_text' = <<>>
    /\ extract_calls' = 0
    /\ model_calls' = 0
    /\ call_shape' = "none"
    /\ response' = NoReply
    /\ validated' = NoInvoice
    /\ invoice' = NoInvoice
    /\ outcome' = Pending

Next ==
    \/ Receive
    \/ TypeCheck
    \/ ReadFile
    \/ ExtractPdf
    \/ EncodeImage
    \/ QueryModel
    \/ ParseResponse
    \/ Normalize
    \/ Finish

Spec == Init /\ [][Next]_vars

----------------------------------------------------------------------------
(* Properties *)

Terminal == pc \in { "Returned", "Errored" }
Parsed == pc \in { "ResponseParsed", "Returned", "Errored" } /\ response.kind = "content"
IsObject == response.kind = "content" /\ response.body.t = "obj"

\* C1: a request whose content type is not exactly image/png, image/jpeg or
\* application/pdf ends, whatever the uploaded bytes, in a 400 with the detail
\* "Unsupported file type".
C1_UnsupportedTypeIs400 ==
    (pc \notin { "Idle", "Received" }
        /\ content_type \notin { "image/png", "image/jpeg", "application/pdf" })
    => /\ pc = "Errored"
       /\ outcome = HttpError(400, "Unsupported file type")
       /\ file_bytes = NoBytes

C1_Witness ==
    /\ pc = "Errored"
    /\ content_type = "IMAGE/PNG"
    /\ upload.kind = "pdf"
    /\ outcome.status = 400

\* C2: the model client is called only once the content type is accepted and, for
\* a PDF, once extraction gave a non-empty trimmed text; a request that ends in a
\* 400 never calls it, and a disallowed content type starts no extraction.
C2_ModelCallGuarded ==
    /\ model_calls > 0 =>
          /\ content_type \in { "image/png", "image/jpeg", "application/pdf" }
          /\ file_bytes # NoBytes
          /\ content_type = "application/pdf" =>
                /\ extract_calls = 1
                /\ extracted_text # <<>>
                /\ Head(extracted_text) \notin Whitespace
                /\ extracted_text[Len(extracted_text)] \notin Whitespace
    /\ outcome.status = 400 => model_calls = 0 /\ call_shape = "none"
    /\ (pc # "Idle" /\ content_type \notin { "image/png", "image/jpeg", "application/pdf" })
          => extract_calls = 0 /\ model_calls = 0

C2_Witness ==
    /\ model_calls = 1
    /\ content_type = "application/pdf"
    /\ Len(file_bytes.pages) = 2
    /\ Len(extracted_text) < Len(ConcatPages(file_bytes.pages))

\* every character of every page is whitespace
AllWhitespace(pages) ==
    \A i \in 1..Len(pages) : \A j \in 1..Len(pages[i]) : pages[i][j] \in Whitespace

\* C3: a PDF whose extracted text is empty once trimmed ends in a 400 with the
\* detail "No readable text found in PDF (possibly scanned)"; the catch-all of
\* the handler does not turn it into a 500.
C3_EmptyPdfIs400 ==
    (content_type = "application/pdf" /\ extract_calls = 1
        /\ file_bytes.kind = "pdf" /\ AllWhitespace(file_bytes.pages))
    => /\ pc = "Errored"
       /\ outcome = HttpError(400, "No readable text found in PDF (possibly scanned)")

C3_Witness ==
    /\ pc = "Errored"
    /\ content_type = "application/pdf"
    /\ extract_calls = 1
    /\ Len(file_bytes.pages) = 2
    /\ outcome.status = 400

\* The JSON type of a value is not the declared type of its field.
WrongTypeOptStr(j) == j.t \in { "num", "bool" }
WrongTypeAmount(j) == j.t \in { "null", "bool" }
WrongTypeValid(j) == j.t \in { "null", "str", "num" }

\* NaN, Infinity and -Infinity are no JSON: a text that holds one is not valid JSON.
NotJsonLiteral(j) == j.t = "num" /\ j.cls \in { "inf", "nan" }

MalformedAsClaimed(body) ==
    \/ body.t # "obj"
    \/ /\ body.t = "obj"
       /\ \/ \E i \in 1..Len(FieldNames) : NotJsonLiteral(body.doc[FieldNames[i]])
          \/ body.doc.total_amount.t = "absent"
          \/ WrongTypeOptStr(body.doc.vendor)
          \/ WrongTypeOptStr(body.doc.invoice_number)
          \/ WrongTypeOptStr(body.doc.invoice_date)
          \/ WrongTypeOptStr(body.doc.due_date)
          \/ WrongTypeOptStr(body.doc.currency)
          \/ WrongTypeAmount(body.doc.total_amount)
          \/ WrongTypeValid(body.doc.valid)

Is500WithMessage ==
    /\ pc = "Errored"
    /\ outcome.kind = "http_error"
    /\ outcome.status = 500
    /\ outcome.detail # ""
    /\ outcome.body = NoInvoice
    /\ invoice = NoInvoice

\* C4: a reply that is not valid JSON, or that is valid JSON but lacks
\* total_amount or has a field whose JSON type is not the declared one, ends in
\* a 500 carrying the validation message, and no record is returned.
C4_AnyWrongTypeIs500 ==
    (Parsed /\ MalformedAsClaimed(response.body)) =>
        /\ Is500WithMessage
        /\ outcome.detail = model_validate_json(response.body).msg

\* C5: with an allowed content type, a failure at any step that is not one of
\* the two 400s (the read of the upload included) leaves the handler as a 500
\* whose detail is the message of the exception.
C5_AnyFailureIs500 ==
    (pc = "Errored"
        /\ content_type \in { "image/png", "image/jpeg", "application/pdf" }
        /\ outcome.status # 400)
    => /\ outcome.kind = "http_error"
       /\ outcome.status = 500
       /\ outcome.detail # ""

\* out is digits, a point and Decimals digits, with or without a sign
IsDigit(c) == \E i \in 1..Len(Digits) : Digits[i] = c
TwoDecimalForm(out) ==
    LET n == Len(out)
        first == IF n > 0 /\ SubSeq(out, 1, 1) = "-" THEN 2 ELSE 1
    IN  /\ n >= first + Decimals + 1
        /\ SubSeq(out, n - Decimals, n - Decimals) = "."
        /\ \A i \in first..n : i # n - Decimals => IsDigit(SubSeq(out, i, i))

\* C6 as stated: a returned record has total_amount as a string: a numeric
\* value in its fixed 2-decimal form, a string value as it came; no float is
\* returned.
C6_NumericIsTwoDecimalString ==
    pc = "Returned" =>
        /\ outcome.kind = "ok"
        /\ outcome.body.total_amount.t = "str"
        /\ validated.total_amount.t = "str" =>
              outcome.body.total_amount = validated.total_amount
        /\ validated.total_amount.t = "float" =>
              TwoDecimalForm(outcome.body.total_amount.s)

\* C6 as amended: a returned record has total_amount as a string: a finite
\* numeric value in its 2-decimal form (1234.5 is "1234.50", ties go to the even
\* digit, -0.0 is "-0.00"), an infinite one as "inf" or "-inf", nan as "nan", a
\* string value as it came; no float is returned.
C6_TotalAmountIsString ==
    pc = "Returned" =>
        /\ outcome.kind = "ok"
        /\ outcome.body.total_amount.t = "str"
        /\ validated.total_amount.t = "str" =>
              outcome.body.total_amount = validated.total_amount
        /\ validated.total_amount.t = "float" =>
              LET x == validated.total_amount
                  out == outcome.body.total_amount.s
              IN  /\ x = PyFloat(FALSE, 2469 * (Unit \div 2)) => out = "1234.50"
                  /\ x = PyFloat(FALSE, 250 * Unit) => out = "250.00"
                  /\ x = PyFloat(FALSE, Unit) => out = "1.00"
                  /\ x = PyFloat(FALSE, Unit \div 16) => out = "0.06"
                  /\ x = PyFloat(FALSE, Unit \div 8) => out = "0.12"
                  /\ x = PyFloat(FALSE, 3 * (Unit \div 16)) => out = "0.19"
                  /\ x = PyFloat(FALSE, 3 * (Unit \div 8)) => out = "0.38"
                  /\ x = PyFloat(TRUE, Unit \div 16) => out = "-0.06"
                  /\ x = PyFloat(TRUE, 0) => out = "-0.00"
                  /\ x.cls = "finite" => TwoDecimalForm(out)
                  /\ x = PyInf(FALSE) => out = "inf"
                  /\ x = PyInf(TRUE) => out = "-inf"
                  /\ x = PyNaN => out = "nan"
        /\ response.body.doc.total_amount \in { JHuge(FALSE), JInfinity(FALSE) } =>
              outcome.body.total_amount = PyStr("inf")
        /\ response.body.doc.total_amount = JNaN => outcome.body.total_amount = PyStr("nan")

C6_Witness ==
    /\ pc = "Returned"
    /\ response.body.doc.total_amount = JNum(2469 * (Unit \div 2))
    /\ outcome.body.total_amount = PyStr("1234.50")

\* C7: normalize_invoice applied twice gives what it gives applied once, and a
\* record whose total_amount is a string is left as it is.
C7_NormalizeIdempotent ==
    /\ pc = "ResponseParsed" =>
          /\ normalize_invoice(normalize_invoice(invoice)) = normalize_invoice(invoice)
          /\ invoice.total_amount.t = "str" => normalize_invoice(invoice) = invoice
    /\ pc = "Returned" => normalize_invoice(outcome.body) = outcome.body

C7_Witness ==
    /\ pc = "Returned"
    /\ validated.total_amount.t = "float"
    /\ outcome.body # validated

OtherFields == { "vendor", "invoice_number", "invoice_date", "due_date", "currency", "valid" }

\* C8: the returned record has the vendor, invoice_number, invoice_date,
\* due_date, currency and valid that validation gave; a missing vendor stays
\* missing and valid stays what the model said, true or false.
C8_OtherFieldsUntouched ==
    pc = "Returned" =>
        /\ \A f \in OtherFields : outcome.body[f] = validated[f]
        /\ response.body.doc.vendor = Absent => outcome.body.vendor = PyNone
        /\ response.body.doc.vendor.t = "str" =>
              outcome.body.vendor = PyStr(response.body.doc.vendor.s)
        /\ response.body.doc.valid.t = "bool" =>
              outcome.body.valid = response.body.doc.valid.b

C8_Witness ==
    /\ pc = "Returned"
    /\ response.body.doc.vendor = Absent
    /\ response.body.doc.valid = JBool(TRUE)
    /\ validated.total_amount.t = "float"
    /\ outcome.body.valid = TRUE

\* C9: a returned record has a string currency: "USD" when the reply omits the
\* key or gives null, never None.
C9_CurrencyIsString ==
    pc = "Returned" =>
        /\ outcome.body.currency.t = "str"
        /\ response.body.doc.currency \in { Absent, Null } =>
              outcome.body.currency = PyStr("USD")

\* C10 as stated: the model client is called at most once in a request, and
\* exactly once in every request that passes the type check and, for a PDF,
\* yields non-empty text.
C10_OnceIfTypeAndTextOk ==
    /\ model_calls <= 1
    /\ (Terminal
          /\ content_type \in { "image/png", "image/jpeg", "application/pdf" }
          /\ (content_type = "application/pdf" => extracted_text # <<>>))
       => model_calls = 1

\* C10 as amended: the model client is called at most once in a request, exactly
\* once in every request that passes the type check, whose upload is read and
\* that, for a PDF, yields non-empty text; when the call raises the request ends
\* in a 500 and the call is not repeated.
C10_OnceIfReadAndTextOk ==
    /\ model_calls <= 1
    /\ (Terminal
          /\ content_type \in { "image/png", "image/jpeg", "application/pdf" }
          /\ file_bytes # NoBytes
          /\ (content_type = "application/pdf" => extracted_text # <<>>))
       => model_calls = 1
    /\ (model_calls = 1 /\ response = NoReply) =>
          /\ pc = "Errored"
          /\ outcome = HttpError(500, "upstream call failed")

C10_Witness ==
    /\ pc = "Errored"
    /\ model_calls = 1
    /\ response = NoReply
    /\ outcome.status = 500

====
